---- MODULE Spec2Model ----
(***************************************************************************)
(* lls: a small `ls` for Windows (src/lls/lls.cpp).                        *)
(*                                                                         *)
(* main parses argv into LsOptions (ParseArguments) and calls ListFiles,   *)
(* which collects the children of options.directory, sorts them with       *)
(* std::sort and writes one of four layouts to std::cout.                  *)
(*                                                                         *)
(* std::cout and std::cerr are sequences of chunks, one chunk per operand  *)
(* of operator<< (std::endl is the chunk "\n"); Flat joins the chunks into *)
(* the text written.                                                       *)
(*                                                                         *)
(* Environment assumptions of the model:                                   *)
(*  - fs::last_write_time and fs::file_size succeed on every collected     *)
(*    entry (the MSVC library returns the size Windows reports, 0, for a   *)
(*    directory), so the only filesystem_error is thrown by the directory  *)
(*    iterator;                                                            *)
(*  - the local time zone is UTC and modification times lie within the     *)
(*    first day of the epoch, or before it (where localtime_s fails).      *)
(***************************************************************************)
EXTENDS Integers, Sequences, FiniteSets, TLC

VARIABLES
    argv,               \* argv[1..argc-1] of main
    i,                  \* loop index of ParseArguments (1-based into argv)
    options,            \* LsOptions
    fs,                 \* the file system: directory path -> set of children
    pc,                 \* position in main / ParseArguments / ListFiles
    seen,               \* children the directory_iterator has already yielded
    entries,            \* std::vector<fs::directory_entry> entries
    collected,          \* history: the entries in push_back order
    consoleWidth,       \* locals of the grid branch
    maxFilenameLength,
    columns,
    count,
    idx,                \* position of the range-for over entries (render loops)
    stdout,             \* chunks written to std::cout
    stderr,             \* chunks written to std::cerr
    what,               \* <<e.what()>> of the filesystem_error thrown, else <<>>
    exitCode            \* <<status>> once the process has ended, else <<>>

vars == <<argv, i, options, fs, pc, seen, entries, collected, consoleWidth,
          maxFilenameLength, columns, count, idx, stdout, stderr, what, exitCode>>

-----------------------------------------------------------------------------
(* Bounds of the model *)

MaxArgs == 2        \* argc - 1 is at most MaxArgs
MaxEntries == 2     \* a listed directory has at most MaxEntries children
MaxWidth == 8       \* console widths 1..MaxWidth, and the fallback width

DefaultWidth == 80

Names == {"a", "b", "cc"}
SubNames == {"zz"}
AllNames == Names \cup SubNames
Sizes == {10, 20}       \* sizes of regular files
Times == {-1, 1}
Widths == (1..MaxWidth) \cup {DefaultWidth}


Args == {"-l", "-d", "-t", "-s", "-1", "-C", "--help", "-h", "--version",
         "-x", "nodir", "f", "sub"}

-----------------------------------------------------------------------------
(* Text helpers *)

RECURSIVE Spaces(_)
Spaces(n) == IF n <= 0 THEN "" ELSE " " \o Spaces(n - 1)

Digit(d) ==
    CASE d = 0 -> "0" [] d = 1 -> "1" [] d = 2 -> "2" [] d = 3 -> "3"
      [] d = 4 -> "4" [] d = 5 -> "5" [] d = 6 -> "6" [] d = 7 -> "7"
      [] d = 8 -> "8" [] d = 9 -> "9"

\* operator<< of an unsigned integer
RECURSIVE Dec(_)
Dec(n) == IF n < 10 THEN Digit(n) ELSE Dec(n \div 10) \o Digit(n % 10)

\* a zero-padded field of put_time
Dec2(n) == Digit((n \div 10) % 10) \o Digit(n % 10)

\* std::setw(w) << std::left << s : pad on the right, never truncate
PadRight(s, w) == s \o Spaces(w - Len(s))

\* std::setw(w) << n (default right adjustment)
PadLeft(s, w) == Spaces(w - Len(s)) \o s

RECURSIVE Flat(_)
Flat(chunks) == IF chunks = <<>> THEN "" ELSE Head(chunks) \o Flat(Tail(chunks))

RECURSIVE CountOf(_, _)
CountOf(chunks, c) ==
    IF chunks = <<>> THEN 0
    ELSE (IF Head(chunks) = c THEN 1 ELSE 0) + CountOf(Tail(chunks), c)

Max(a, b) == IF a >= b THEN a ELSE b

-----------------------------------------------------------------------------
(* DisplayUsage, IsValidDirectory, GetConsoleWidth *)

UsageText ==
    "Usage: lls [options] [directory]\n" \o
    "Options:\n" \o
    "  -l        Long listing format\n" \o
    "  -d        List directories only\n" \o
    "  -t        Sort by modification time\n" \o
    "  -s        Sort by file size\n" \o
    "  -1        One column output\n" \o
    "  -C        Multi-column output\n"

VersionText == "lls version 1.0.0\n"

\* what fs::exists / fs::is_directory answer for the paths an argument can name
Exists == {".", "sub", "f"}
Directories == {".", "sub"}

IsValidDirectory(dir) == dir \in Exists /\ dir \in Directories

\* arg[0]
FirstChar(arg) ==
    CASE arg \in {"-l", "-d", "-t", "-s", "-1", "-C", "--help", "-h", "-?",
                  "--version", "-x"} -> "-"
      [] arg = "nodir" -> "n"
      [] arg = "f" -> "f"
      [] arg = "sub" -> "s"
      [] OTHER -> ""

DefaultOptions ==
    [longListing |-> FALSE, directoriesOnly |-> FALSE, sortByTime |-> FALSE,
     sortBySize |-> FALSE, oneColumn |-> FALSE, multiColumn |-> FALSE,
     directory |-> "."]

LsOptions ==
    [longListing : BOOLEAN, directoriesOnly : BOOLEAN, sortByTime : BOOLEAN,
     sortBySize : BOOLEAN, oneColumn : BOOLEAN, multiColumn : BOOLEAN,
     directory : {"."}]

-----------------------------------------------------------------------------
(* ParseArguments *)

IsFlag(arg) == arg \in {"-l", "-d", "-t", "-s", "-1", "-C"}
IsHelp(arg) == arg \in {"--help", "-h", "-?"}
IsVersion(arg) == arg = "--version"
IsOther(arg) == ~IsFlag(arg) /\ ~IsHelp(arg) /\ ~IsVersion(arg)
IsUnknownOption(arg) == IsOther(arg) /\ FirstChar(arg) = "-"
IsInvalidDir(arg) == IsOther(arg) /\ FirstChar(arg) # "-" /\ ~IsValidDirectory(arg)
IsBadArg(arg) == IsUnknownOption(arg) \/ IsInvalidDir(arg)
IsMissingDir(arg) == IsInvalidDir(arg) /\ arg \notin Exists

\* the else branch of the chain (lines 70-84) without its `continue`s
SetDirectoryAlways(opts, arg) == [opts EXCEPT !.directory = arg]

\* the else branch of the chain (lines 70-84): what it leaves in options
SetDirectory(opts, arg) ==
    IF FirstChar(arg) = "-" THEN opts
    ELSE IF ~IsValidDirectory(arg) THEN opts
    ELSE [opts EXCEPT !.directory = arg]

\* the assignments one iteration of the loop makes to options
ParseStep(opts, arg) ==
    CASE arg = "-l" -> [opts EXCEPT !.longListing = TRUE]
      [] arg = "-d" -> [opts EXCEPT !.directoriesOnly = TRUE]
      [] arg = "-t" -> [opts EXCEPT !.sortByTime = TRUE]
      [] arg = "-s" -> [opts EXCEPT !.sortBySize = TRUE]
      [] arg = "-1" -> [opts EXCEPT !.oneColumn = TRUE]
      [] arg = "-C" -> [opts EXCEPT !.multiColumn = TRUE]
      [] IsHelp(arg) \/ IsVersion(arg) -> opts
      [] OTHER -> SetDirectory(opts, arg)

ListVarsUnchanged ==
    UNCHANGED <<fs, seen, entries, collected, consoleWidth, maxFilenameLength,
                columns, count, idx, what>>

ParseFlag ==
    /\ pc = "parse" /\ i <= Len(argv) /\ IsFlag(argv[i])
    /\ options' = ParseStep(options, argv[i])
    /\ i' = i + 1
    /\ UNCHANGED <<argv, pc, stdout, stderr, exitCode>>
    /\ ListVarsUnchanged

ParseHelp ==
    /\ pc = "parse" /\ i <= Len(argv) /\ IsHelp(argv[i])
    /\ stdout' = Append(stdout, UsageText)
    /\ pc' = "done"
    /\ exitCode' = <<0>>
    /\ UNCHANGED <<argv, i, options, stderr>>
    /\ ListVarsUnchanged

ParseVersion ==
    /\ pc = "parse" /\ i <= Len(argv) /\ IsVersion(argv[i])
    /\ stdout' = Append(stdout, VersionText)
    /\ pc' = "done"
    /\ exitCode' = <<0>>
    /\ UNCHANGED <<argv, i, options, stderr>>
    /\ ListVarsUnchanged

ParseUnknownOption ==
    /\ pc = "parse" /\ i <= Len(argv) /\ IsUnknownOption(argv[i])
    /\ stderr' = stderr \o <<"Unknown option: ", argv[i], "\n">>
    /\ stdout' = Append(stdout, UsageText)
    /\ options' = ParseStep(options, argv[i])
    /\ i' = i + 1
    /\ UNCHANGED <<argv, pc, exitCode>>
    /\ ListVarsUnchanged

ParseInvalidDirectory ==
    /\ pc = "parse" /\ i <= Len(argv) /\ IsInvalidDir(argv[i])
    /\ stderr' = stderr \o <<"Invalid directory: ", argv[i], "\n">>
    /\ stdout' = Append(stdout, UsageText)
    /\ options' = ParseStep(options, argv[i])
    /\ i' = i + 1
    /\ UNCHANGED <<argv, pc, exitCode>>
    /\ ListVarsUnchanged

ParseDirectory ==
    /\ pc = "parse" /\ i <= Len(argv)
    /\ IsOther(argv[i]) /\ ~IsBadArg(argv[i])
    /\ options' = ParseStep(options, argv[i])
    /\ i' = i + 1
    /\ UNCHANGED <<argv, pc, stdout, stderr, exitCode>>
    /\ ListVarsUnchanged

\* the loop ends; main goes on to call ListFiles(options)
ParseReturn ==
    /\ pc = "parse" /\ i > Len(argv)
    /\ pc' = "open"
    /\ UNCHANGED <<argv, i, options, stdout, stderr, exitCode>>
    /\ ListVarsUnchanged

-----------------------------------------------------------------------------
(* ListFiles: collection *)

\* e.what() of the filesystem_error the directory iterator throws for dir
WhatOf(dir) == "directory_iterator: cannot read directory: " \o dir

\* the catch block: one line on std::cerr
CatchOutput(msg) == <<"Error: ", msg, "\n">>

\* the filter of the collection loop
Keep(opts, e) == ~(opts.directoriesOnly /\ ~e.isDir)

RenderVarsUnchanged ==
    UNCHANGED <<consoleWidth, maxFilenameLength, columns, count, idx>>

\* fs::directory_iterator dirIter(options.directory) succeeds
OpenDir ==
    /\ pc = "open"
    /\ pc' = "collect"
    /\ seen' = {}
    /\ entries' = <<>>
    /\ UNCHANGED <<argv, i, options, fs, collected, stdout, stderr, what, exitCode>>
    /\ RenderVarsUnchanged

\* the constructor throws; the catch block reports it and main returns 0
OpenDirFail ==
    /\ pc = "open"
    /\ what' = <<WhatOf(options.directory)>>
    /\ stderr' = stderr \o CatchOutput(WhatOf(options.directory))
    /\ pc' = "done"
    /\ exitCode' = <<0>>
    /\ UNCHANGED <<argv, i, options, fs, seen, entries, collected, stdout>>
    /\ RenderVarsUnchanged

\* one iteration of the collection loop
CollectEntry ==
    /\ pc = "collect"
    /\ \E e \in fs[options.directory] \ seen :
          /\ seen' = seen \cup {e}
          /\ IF Keep(options, e)
                THEN /\ entries' = Append(entries, e)
                     /\ collected' = Append(collected, e)
                ELSE UNCHANGED <<entries, collected>>
    /\ UNCHANGED <<argv, i, options, fs, pc, stdout, stderr, what, exitCode>>
    /\ RenderVarsUnchanged

\* the error of the iterator swallowed inside the loop: the listing goes on
CollectFailContinue ==
    /\ pc = "collect"
    /\ what' = <<WhatOf(options.directory)>>
    /\ stderr' = stderr \o CatchOutput(WhatOf(options.directory))
    /\ pc' = "sort"
    /\ UNCHANGED <<argv, i, options, fs, seen, entries, collected, stdout, exitCode>>
    /\ RenderVarsUnchanged

\* advancing the iterator throws; the catch block reports it and main returns 0
CollectFail ==
    /\ pc = "collect"
    /\ what' = <<WhatOf(options.directory)>>
    /\ stderr' = stderr \o CatchOutput(WhatOf(options.directory))
    /\ pc' = "done"
    /\ exitCode' = <<0>>
    /\ UNCHANGED <<argv, i, options, fs, seen, entries, collected, stdout>>
    /\ RenderVarsUnchanged

\* the iterator reaches the end
CollectEnd ==
    /\ pc = "collect"
    /\ seen = fs[options.directory]
    /\ pc' = "sort"
    /\ UNCHANGED <<argv, i, options, fs, seen, entries, collected, stdout, stderr,
                   what, exitCode>>
    /\ RenderVarsUnchanged

-----------------------------------------------------------------------------
(* ListFiles: sorting *)

Range(s) == {s[k] : k \in 1..Len(s)}

Perms(s) ==
    {p \in [1..Len(s) -> Range(s)] : \A k \in 1..Len(s) : \E j \in 1..Len(s) : p[j] = s[k]}

\* the comparator of the time sort, with the comparison reversed
TimeLess(a, b) == a.mtime < b.mtime

\* the comparator of the time sort
TimeGreater(a, b) == a.mtime > b.mtime

\* the comparator of the size sort
SizeGreater(a, b) == a.size > b.size

\* std::sort(first, last, comp) with the comparator of the time sort: some
\* permutation in which no element precedes one that comp orders before it;
\* the order of equivalent elements is unspecified
StdSortByTime(s) ==
    {p \in Perms(s) : \A j, k \in 1..Len(s) : j < k => ~TimeGreater(p[k], p[j])}

\* std::sort(first, last, comp) with the comparator of the size sort
StdSortBySize(s) ==
    {p \in Perms(s) : \A j, k \in 1..Len(s) : j < k => ~SizeGreater(p[k], p[j])}

SortUnchanged ==
    UNCHANGED <<argv, i, options, fs, seen, collected, stdout, stderr, what, exitCode>>

SortByTime ==
    /\ pc = "sort"
    /\ options.sortByTime
    /\ entries' \in StdSortByTime(entries)
    /\ pc' = "render"
    /\ SortUnchanged
    /\ RenderVarsUnchanged

SortBySize ==
    /\ pc = "sort"
    /\ ~options.sortByTime /\ options.sortBySize
    /\ entries' \in StdSortBySize(entries)
    /\ pc' = "render"
    /\ SortUnchanged
    /\ RenderVarsUnchanged

NoSort ==
    /\ pc = "sort"
    /\ ~options.sortByTime /\ ~options.sortBySize
    /\ pc' = "render"
    /\ UNCHANGED entries
    /\ SortUnchanged
    /\ RenderVarsUnchanged

-----------------------------------------------------------------------------
(* ListFiles: grid layout *)

RECURSIVE MaxNameLength(_)
MaxNameLength(s) ==
    IF s = <<>> THEN 0 ELSE Max(Len(Head(s).name), MaxNameLength(Tail(s)))

\* the column count computed without the two columns of spacing
ColumnsNoSpacing(width, maxLen) ==
    IF width \div (maxLen + 1) < 1 THEN 1 ELSE width \div (maxLen + 1)

\* int columns = consoleWidth / (maxFilenameLength + 2); if (columns < 1) columns = 1;
Columns(width, maxLen) ==
    IF width \div (maxLen + 2) < 1 THEN 1 ELSE width \div (maxLen + 2)

\* the printing loop from entry k on, count entries already printed
RECURSIVE GridLoop(_, _, _, _, _)
GridLoop(es, k, maxLen, cols, cnt) ==
    IF k > Len(es) THEN <<>>
    ELSE <<PadRight(es[k].name, maxLen), "  ">>
         \o (IF (cnt + 1) % cols = 0 THEN <<"\n">> ELSE <<>>)
         \o GridLoop(es, k + 1, maxLen, cols, cnt + 1)

\* the newline after an incomplete last row
GridTail(cnt, cols) == IF cnt % cols # 0 THEN <<"\n">> ELSE <<>>

\* the multi-column branch: GetConsoleWidth, the maximum filename length, the
\* column count, the printing loop, the closing newline and the return
Grid ==
    /\ pc = "render"
    /\ options.multiColumn
    /\ \E w \in Widths :
          /\ consoleWidth' = w
          /\ columns' = Columns(w, MaxNameLength(entries))
    /\ maxFilenameLength' = MaxNameLength(entries)
    /\ count' = Len(entries)
    /\ idx' = Len(entries) + 1
    /\ stdout' = stdout
                 \o GridLoop(entries, 1, maxFilenameLength', columns', 0)
                 \o GridTail(count', columns')
    /\ pc' = "done"
    /\ exitCode' = <<0>>
    /\ UNCHANGED <<argv, i, options, fs, seen, entries, collected, stderr, what>>

-----------------------------------------------------------------------------
(* ListFiles: long, one-column and default layouts *)

\* localtime_s(&timeInfo, &cftime) == 0 : times before the epoch are rejected
LocalTimeOk(t) == t >= 0

\* std::put_time(&timeInfo, "%Y-%m-%d %H:%M:%S")
PutTime(t) ==
    "1970-01-01 " \o Dec2((t \div 3600) % 24) \o ":" \o Dec2((t \div 60) % 60)
                  \o ":" \o Dec2(t % 60)

\* the chunks of one long-listing line
LongLine(e) ==
    << (IF e.isDir THEN "d" ELSE "-"), PadLeft(Dec(e.size), 10), " ",
       PutTime(e.mtime), " ", e.name, "\n" >>

\* the diagnostic written instead of the line
LongError(e) == <<"Error converting time for file: ", e.name, "\n">>

\* the simple listing that writes nothing for an entry
SimpleChunksNone(opts, e) == <<>>

\* the simple listing format
SimpleChunks(opts, e) == <<e.name, IF opts.oneColumn THEN "\n" ELSE "  ">>

ListUnchanged ==
    UNCHANGED <<argv, i, options, fs, seen, entries, collected, what,
                consoleWidth, maxFilenameLength, columns, count>>

ListBegin ==
    /\ pc = "render"
    /\ ~options.multiColumn
    /\ idx' = 1
    /\ pc' = "list"
    /\ UNCHANGED <<stdout, stderr, exitCode>>
    /\ ListUnchanged

ListLong ==
    /\ pc = "list"
    /\ idx <= Len(entries)
    /\ options.longListing
    /\ LocalTimeOk(entries[idx].mtime)
    /\ stdout' = stdout \o LongLine(entries[idx])
    /\ idx' = idx + 1
    /\ UNCHANGED <<pc, stderr, exitCode>>
    /\ ListUnchanged

\* a failed conversion that ends the loop instead of skipping the entry
ListLongErrorAbort ==
    /\ pc = "list"
    /\ idx <= Len(entries)
    /\ options.longListing
    /\ ~LocalTimeOk(entries[idx].mtime)
    /\ stderr' = stderr \o LongError(entries[idx])
    /\ idx' = Len(entries) + 1
    /\ UNCHANGED <<pc, stdout, exitCode>>
    /\ ListUnchanged

ListLongError ==
    /\ pc = "list"
    /\ idx <= Len(entries)
    /\ options.longListing
    /\ ~LocalTimeOk(entries[idx].mtime)
    /\ stderr' = stderr \o LongError(entries[idx])
    /\ idx' = idx + 1
    /\ UNCHANGED <<pc, stdout, exitCode>>
    /\ ListUnchanged

ListSimple ==
    /\ pc = "list"
    /\ idx <= Len(entries)
    /\ ~options.longListing
    /\ stdout' = stdout \o SimpleChunks(options, entries[idx])
    /\ idx' = idx + 1
    /\ UNCHANGED <<pc, stderr, exitCode>>
    /\ ListUnchanged

\* the newline after the loop, and the return
ListEnd ==
    /\ pc = "list"
    /\ idx > Len(entries)
    /\ stdout' = stdout \o (IF ~options.oneColumn THEN <<"\n">> ELSE <<>>)
    /\ pc' = "done"
    /\ exitCode' = <<0>>
    /\ UNCHANGED <<idx, stderr>>
    /\ ListUnchanged

-----------------------------------------------------------------------------
(* Specifications *)

Argvs == UNION {[1..n -> Args] : n \in 0..MaxArgs}

\* what the file system records of a child: regular files have a size in
\* Sizes, directories have the size 0 that Windows reports for them
Attr ==
    [isDir : {FALSE}, size : Sizes, mtime : Times]
        \cup [isDir : {TRUE}, size : {0}, mtime : Times]

\* the directories of at most MaxEntries children, with distinct names
DirSets ==
    UNION { { {[name |-> n, isDir |-> f[n].isDir, size |-> f[n].size,
                mtime |-> f[n].mtime] : n \in N} : f \in [N -> Attr] }
            : N \in {M \in SUBSET Names : Cardinality(M) <= MaxEntries} }

\* the file system of a run of the whole program
MainFS ==
    [d \in Directories |->
        IF d = "."
        THEN { [name |-> "a", isDir |-> FALSE, size |-> 10, mtime |-> 1],
               [name |-> "cc", isDir |-> TRUE, size |-> 0, mtime |-> -1] }
        ELSE { [name |-> "zz", isDir |-> FALSE, size |-> 10, mtime |-> 1] }]

InitLocals ==
    /\ seen = {}
    /\ entries = <<>>
    /\ collected = <<>>
    /\ consoleWidth = 0
    /\ maxFilenameLength = 0
    /\ columns = 0
    /\ count = 0
    /\ idx = 0
    /\ stdout = <<>>
    /\ stderr = <<>>
    /\ what = <<>>
    /\ exitCode = <<>>

\* the program started with some argv
Init ==
    /\ argv \in Argvs
    /\ i = 1
    /\ options = DefaultOptions
    /\ fs = MainFS
    /\ pc = "parse"
    /\ InitLocals

\* ListFiles called with some options on some directory
InitList ==
    /\ argv = <<>>
    /\ i = 1
    /\ options \in LsOptions
    /\ fs \in {[d \in {"."} |-> S] : S \in DirSets}
    /\ pc = "open"
    /\ InitLocals

NextList ==
    \/ OpenDir \/ OpenDirFail
    \/ CollectEntry \/ CollectFail \/ CollectEnd
    \/ SortByTime \/ SortBySize \/ NoSort
    \/ Grid
    \/ ListBegin \/ ListLong \/ ListLongError \/ ListSimple \/ ListEnd

Next ==
    \/ ParseFlag \/ ParseHelp \/ ParseVersion
    \/ ParseUnknownOption \/ ParseInvalidDirectory \/ ParseDirectory
    \/ ParseReturn
    \/ NextList

Spec == Init /\ [][Next]_vars

SpecList == InitList /\ [][NextList]_vars

-----------------------------------------------------------------------------
(* What was rendered, read back from std::cout *)

LongestName == CHOOSE m \in {Len(n) : n \in AllNames} : \A n \in AllNames : Len(n) <= m

\* the chunks that print the name n: bare, or padded by the grid
NamePads(n) == {PadRight(n, w) : w \in 0..LongestName}

\* every chunk that prints a name, and the name it prints
NameChunks == UNION {NamePads(n) : n \in AllNames}

NameOfChunk == [c \in NameChunks |-> CHOOSE n \in AllNames : c \in NamePads(n)]

IsNameChunk(c) == c \in NameChunks

\* the entry names on std::cout, in the order written
RenderedNames(out) ==
    LET s == SelectSeq(out, IsNameChunk)
    IN  [k \in 1..Len(s) |-> NameOfChunk[s[k]]]

NameSeq(es) == [k \in 1..Len(es) |-> es[k].name]

Pos(s, x) == CHOOSE k \in 1..Len(s) : s[k] = x

EntryNamed(n) == CHOOSE e \in Range(collected) : e.name = n

\* the entries rendered, in the order rendered
RenderedEntries ==
    LET r == RenderedNames(stdout)
    IN  [k \in 1..Len(r) |-> EntryNamed(r[k])]

\* std::endl count of a stream
Lines(out) == CountOf(out, "\n")

\* ListFiles ran to its end without a filesystem_error
Listed == pc = "done" /\ what = <<>> /\ idx > 0

GridMode == options.multiColumn
LongMode == ~options.multiColumn /\ options.longListing
OneColumnMode == ~options.multiColumn /\ ~options.longListing /\ options.oneColumn
DefaultMode == ~options.multiColumn /\ ~options.longListing /\ ~options.oneColumn

SortKey(e) == IF options.sortByTime THEN e.mtime ELSE e.size

RECURSIVE Join(_, _)
Join(names, sep) ==
    IF names = <<>> THEN ""
    ELSE IF Len(names) = 1 THEN names[1]
    ELSE names[1] \o sep \o Join(Tail(names), sep)

\* the data lines of the long layout
RECURSIVE LongLines(_)
LongLines(es) == IF es = <<>> THEN <<>> ELSE LongLine(Head(es)) \o LongLines(Tail(es))

\* every name followed by end
RECURSIVE EachName(_, _)
EachName(es, end) ==
    IF es = <<>> THEN <<>> ELSE <<Head(es).name, end>> \o EachName(Tail(es), end)

Ceil(n, c) == (n + c - 1) \div c

-----------------------------------------------------------------------------
(* Claims *)

\* C1: sorting is stable: two collected entries with equal sort keys (equal
\* modification time under sortByTime, else equal size under sortBySize) are
\* rendered in the relative order in which they were collected.
C1_StableSort ==
    (Listed /\ (options.sortByTime \/ options.sortBySize)) =>
        LET r == RenderedNames(stdout)
        IN  \A j, k \in 1..Len(collected) :
                ( /\ j < k
                  /\ SortKey(collected[j]) = SortKey(collected[k])
                  /\ collected[j].name \in Range(r)
                  /\ collected[k].name \in Range(r) )
                => Pos(r, collected[j].name) < Pos(r, collected[k].name)

\* C2 as stated: once the listing is complete, every collected entry is
\* rendered exactly once, whatever the options.
C2_RenderedExactlyOnce ==
    Listed =>
        LET r == RenderedNames(stdout)
        IN  /\ Len(r) = Len(collected)
            /\ Range(r) = Range(NameSeq(collected))

\* C2 amended: once the listing is complete, every collected entry is rendered
\* exactly once, except that in long mode an entry whose timestamp conversion
\* fails has no data line.
C2_RenderedOnceUnlessConversionFails ==
    Listed =>
        LET r == RenderedNames(stdout)
            want == {e.name : e \in {x \in Range(collected) :
                                        ~(LongMode /\ ~LocalTimeOk(x.mtime))}}
        IN  /\ Len(r) = Cardinality(want)
            /\ Range(r) = want

C2_Witness ==
    /\ Listed /\ LongMode
    /\ Len(collected) = 2
    /\ Len(RenderedNames(stdout)) = 1

\* C3: in grid mode the column count is max(1, floor(width / (maxNameLen + 2)))
\* with maxNameLen = 0 for no entries, the number of newlines written is
\* ceil(entryCount / columns), and no entries means no output at all.
C3_GridLayout ==
    (Listed /\ GridMode) =>
        LET lens == {Len(e.name) : e \in Range(collected)}
            maxLen == IF lens = {} THEN 0
                      ELSE CHOOSE m \in lens : \A l \in lens : l <= m
        IN  /\ columns = Max(1, consoleWidth \div (maxLen + 2))
            /\ Lines(stdout) = Ceil(Len(collected), columns)
            /\ (collected = <<>> => stdout = <<>>)

C3_Witness ==
    /\ Listed /\ GridMode
    /\ Len(collected) = 2
    /\ columns = 2
    /\ Lines(stdout) = 1

\* C4: exactly one layout renders, by the precedence grid > long > one-column
\* > default, and nothing of a lower mode (its trailing newline included) is
\* written while a higher mode is active: the long layout is the data lines
\* alone, whether or not oneColumn is set.
C4_ModePrecedence ==
    Listed =>
        LET shown == SelectSeq(entries, LAMBDA e : LocalTimeOk(e.mtime))
        IN  CASE GridMode ->
                    stdout = GridLoop(entries, 1, maxFilenameLength, columns, 0)
                             \o GridTail(Len(entries), columns)
              [] LongMode -> stdout = LongLines(shown)
              [] OneColumnMode -> stdout = EachName(entries, "\n")
              [] OTHER -> stdout = EachName(entries, "  ") \o <<"\n">>

\* C5: run with a positional directory argument that does not exist, the
\* program writes a diagnostic naming that path and lists no entry of any
\* directory.
C5_MissingDirectoryListsNothing ==
    ( /\ pc = "done"
      /\ \E k \in 1..Len(argv) :
            /\ IsMissingDir(argv[k])
            /\ \A j \in 1..Len(argv) : j # k => IsFlag(argv[j]) )
    => /\ \E k \in 1..Len(argv) : IsMissingDir(argv[k]) /\ argv[k] \in Range(stderr)
       /\ RenderedNames(stdout) = <<>>

\* C6: with sortByTime set (sortBySize set or not) the rendered order is
\* non-increasing in modification time; with only sortBySize set it is
\* non-increasing in size; with neither it is the collection order.
C6_SortPrecedence ==
    Listed =>
        LET r == RenderedEntries
            c == NameSeq(collected)
        IN  \A j, k \in 1..Len(r) :
                j < k =>
                    IF options.sortByTime THEN r[j].mtime >= r[k].mtime
                    ELSE IF options.sortBySize THEN r[j].size >= r[k].size
                    ELSE Pos(c, r[j].name) < Pos(c, r[k].name)

C6_Witness ==
    /\ Listed
    /\ options.sortByTime /\ options.sortBySize
    /\ Len(collected) = 2
    /\ collected[1].mtime < collected[2].mtime
    /\ collected[1].size > collected[2].size
    /\ RenderedNames(stdout) = <<collected[2].name, collected[1].name>>

\* C7: in default mode the text written is the entry names joined by two
\* spaces (between consecutive names only) and then one newline.
C7_DefaultJoined ==
    (Listed /\ DefaultMode) =>
        Flat(stdout) = Join(NameSeq(entries), "  ") \o "\n"

\* C8: in long mode an entry whose timestamp conversion fails has no data
\* line and exactly one diagnostic naming it, and every other entry still has
\* its data line, in sorted order.
C8_ConversionFailureSkipsOneEntry ==
    (Listed /\ LongMode) =>
        LET ok == SelectSeq(entries, LAMBDA e : LocalTimeOk(e.mtime))
            bad == SelectSeq(entries, LAMBDA e : ~LocalTimeOk(e.mtime))
        IN  /\ RenderedNames(stdout) = NameSeq(ok)
            /\ \A k \in 1..Len(ok) : CountOf(stdout, PutTime(ok[k].mtime)) >= 1
            /\ Lines(stderr) = Len(bad)
            /\ SelectSeq(stderr, LAMBDA c : c \in AllNames) = NameSeq(bad)

C8_Witness ==
    /\ Listed /\ LongMode
    /\ Len(entries) = 2
    /\ ~LocalTimeOk(entries[1].mtime)
    /\ LocalTimeOk(entries[2].mtime)
    /\ RenderedNames(stdout) = <<entries[2].name>>

RECURSIVE ParseAll(_, _)
ParseAll(opts, args) ==
    IF args = <<>> THEN opts ELSE ParseAll(ParseStep(opts, Head(args)), Tail(args))

\* C9: an unknown flag or an invalid directory argument produces a warning,
\* changes no option, and does not stop the parsing: the options are those the
\* same arguments give with the bad ones removed, and the loop reaches the end
\* of argv.
C9_BadArgumentIgnored ==
    (pc \in {"parse", "open"}) =>
        LET done == SubSeq(argv, 1, i - 1)
            good == SelectSeq(done, LAMBDA a : ~IsBadArg(a))
            bad == SelectSeq(done, LAMBDA a : IsBadArg(a))
        IN  /\ options = ParseAll(DefaultOptions, good)
            /\ Lines(stderr) = Len(bad)
            /\ SelectSeq(stderr, LAMBDA c : c \in Args) = bad
            /\ (pc = "open" => i = Len(argv) + 1)

C9_Witness ==
    /\ pc = "open"
    /\ Len(argv) = 2
    /\ IsBadArg(argv[1])
    /\ argv[2] = "-l"
    /\ options = [DefaultOptions EXCEPT !.longListing = TRUE]

\* C10: when the directory iterator fails, at its construction or at any step
\* of the collection, ListFiles writes exactly one diagnostic line and no
\* output, never sorts or renders, takes no further step, and the process
\* ends with status 0.
C10_EnumerationFailureAbortsListing ==
    (what # <<>>) =>
        /\ pc = "done"
        /\ exitCode = <<0>>
        /\ stdout = <<>>
        /\ stderr = CatchOutput(what[1])
        /\ entries = collected
        /\ idx = 0 /\ consoleWidth = 0
        /\ ~ENABLED NextList

C10_Witness ==
    /\ what # <<>>
    /\ pc = "done"
    /\ Len(collected) = 1
    /\ Cardinality(seen) = 2

====
